---- MODULE Spec2Model ----
(***************************************************************************)
(* One invocation of a CLI command of the repository: the Datadog, Loggly  *)
(* and Splunk logging `list` commands, the FTP logging `describe` command  *)
(* and the VCL snippet `update` command.  Each Exec resolves the service   *)
(* and version through cmd.ServiceDetails, calls one resource method of    *)
(* the API client, logs errors to Globals.ErrLog and writes to `out`.      *)
(*                                                                         *)
(* cmd.ServiceDetails (package pkg/cmd) is not among the source files; its *)
(* steps are modelled from the specification's section 4.1.                *)
(***************************************************************************)
EXTENDS Integers, Sequences, FiniteSets, TLC

\* Number of versions the remote service has when the command starts.
NumVersions == 2

----------------------------------------------------------------------------
\* Commands

ListCommands == {"datadog list", "loggly list", "splunk list"}

DescribeCommands == {"ftp describe"}

UpdateCommands == {"snippet update"}

Commands == ListCommands \cup DescribeCommands \cup UpdateCommands

\* The commands that register the --json flag.
JSONCommands == ListCommands \cup DescribeCommands

\* The resource method of the API client each read-only command calls.
ResourceMethod(c) ==
    CASE c = "datadog list" -> "ListDatadog"
      [] c = "loggly list"  -> "ListLoggly"
      [] c = "splunk list"  -> "ListSplunks"
      [] c = "ftp describe" -> "GetFTP"

\* The outbound calls cmd.ServiceDetails can make.
ResolutionMethods == {"NameLookup", "ListVersions", "CloneVersion"}

UpdateMethods == {"UpdateSnippet", "UpdateDynamicSnippet"}

ResourceMethods == {"ListDatadog", "ListLoggly", "ListSplunks", "GetFTP"} \cup UpdateMethods

----------------------------------------------------------------------------
\* Errors

NoErr == [kind |-> "nil", detail |-> ""]

ErrInvalidVerboseJSONCombo == [kind |-> "usage", detail |-> "invalid verbose/json combination"]

ErrNoServiceID == [kind |-> "resolution", detail |-> "no service ID"]

ErrActiveLockedVersion == [kind |-> "resolution", detail |-> "active or locked version"]

ErrNoActiveVersion == [kind |-> "resolution", detail |-> "no matching version"]

APIError(method) == [kind |-> "api", detail |-> method]

ErrNewNameNotSupported ==
    [kind |-> "usage",
     detail |-> "error parsing arguments: --new-name is not supported when updating a dynamic VCL snippet"]

ErrMustProvideSnippetID ==
    [kind |-> "usage",
     detail |-> "error parsing arguments: must provide --snippet-id to update a dynamic VCL snippet"]

ErrSnippetIDNotSupported ==
    [kind |-> "usage",
     detail |-> "error parsing arguments: --snippet-id is not supported when updating a versioned VCL snippet"]

ErrMustProvideName ==
    [kind |-> "usage",
     detail |-> "error parsing arguments: must provide --name to update a versioned VCL snippet"]

----------------------------------------------------------------------------
\* State

VARIABLES
    cmd,            \* the command being executed
    flags,          \* the parsed command-line flags (the command's fields)
    manifest,       \* manifest.Data: Flag.ServiceID (--service-id) and the file's default
    remote,         \* the remote service: its versions and the ID its name resolves to
    pc,             \* position of the invocation
    opts,           \* the cmd.ServiceDetailsOpts Exec passes to cmd.ServiceDetails
    serviceID,      \* serviceID returned by cmd.ServiceDetails
    serviceVersion, \* *fastly.Version returned by cmd.ServiceDetails
    currentVersion, \* number of the version selected before the editability check
    sdErr,          \* err returned by cmd.ServiceDetails
    err,            \* error returned by Exec
    calls,          \* outbound API calls made so far, in order
    errLog,         \* entries of Globals.ErrLog, in order
    out             \* what was written to `out`, in order

vars == <<cmd, flags, manifest, remote, pc, opts, serviceID, serviceVersion,
          currentVersion, sdErr, err, calls, errLog, out>>

NoVersion == [Number |-> 0, Active |-> FALSE, Locked |-> FALSE]

NoOpts ==
    [AllowActiveLocked |-> FALSE,
     AutoCloneFlag |-> [WasSet |-> FALSE],
     ServiceNameFlag |-> [WasSet |-> FALSE, Value |-> ""],
     ServiceVersionFlag |-> [kind |-> "literal", n |-> 0],
     Manifest |-> [Flag |-> "", File |-> ""]]

\* Statuses of a remote version. An active version is also locked.
VersionStatuses == {"editable", "locked", "active"}

\* The version lists a service can have: at most one version is active.
VersionLists ==
    {vs \in [1..NumVersions -> VersionStatuses] :
        Cardinality({i \in 1..NumVersions : vs[i] = "active"}) <= 1}

\* Values of --version: a literal integer >= 1 or a symbolic selector.
VersionFlags ==
    {[kind |-> "latest", n |-> 0], [kind |-> "active", n |-> 0]}
        \cup {[kind |-> "literal", n |-> i] : i \in 1..NumVersions}

OptionalBools ==
    {[WasSet |-> FALSE, Value |-> FALSE]} \cup {[WasSet |-> TRUE, Value |-> b] : b \in BOOLEAN}

ServiceNameFlags ==
    {[WasSet |-> FALSE, Value |-> ""], [WasSet |-> TRUE, Value |-> "my-service"]}

\* Flags every command registers.
CommonFlags ==
    [verbose : BOOLEAN,
     serviceName : ServiceNameFlags,
     serviceVersion : VersionFlags]

\* Flags of the read-only commands.
ReadFlags ==
    {[verbose |-> f.verbose, serviceName |-> f.serviceName,
      serviceVersion |-> f.serviceVersion, json |-> j,
      autoClone |-> [WasSet |-> FALSE], dynamic |-> [WasSet |-> FALSE, Value |-> FALSE],
      name |-> "", snippetID |-> "", newName |-> [WasSet |-> FALSE]] :
        f \in CommonFlags, j \in BOOLEAN}

\* Flags of the snippet update command.
UpdateFlags ==
    {[verbose |-> f.verbose, serviceName |-> f.serviceName,
      serviceVersion |-> f.serviceVersion, json |-> FALSE,
      autoClone |-> [WasSet |-> u.autoClone], dynamic |-> u.dynamic,
      name |-> u.name, snippetID |-> u.snippetID, newName |-> [WasSet |-> u.newName]] :
        f \in CommonFlags,
        u \in [autoClone : BOOLEAN, dynamic : OptionalBools, name : {"", "snippet-name"},
               snippetID : {"", "snippet-id"}, newName : BOOLEAN]}

Manifests == [Flag : {"", "sid-flag"}, File : {"", "sid-file"}]

Init ==
    /\ cmd \in Commands
    /\ flags \in (IF cmd \in UpdateCommands THEN UpdateFlags ELSE ReadFlags)
    /\ manifest \in Manifests
    /\ remote \in [versions : VersionLists, idOfName : {"sid-name"}]
    /\ pc = "Exec"
    /\ opts = NoOpts
    /\ serviceID = ""
    /\ serviceVersion = NoVersion
    /\ currentVersion = 0
    /\ sdErr = NoErr
    /\ err = NoErr
    /\ calls = <<>>
    /\ errLog = <<>>
    /\ out = <<>>

----------------------------------------------------------------------------
\* Helpers

\* One outbound call of the API client: the method and the service ID and
\* service version of its input (0 when the input carries none), and whether
\* the call succeeded.
Call(method, sid, ver, ok) ==
    [method |-> method, serviceID |-> sid, serviceVersion |-> ver, ok |-> ok]

\* ErrLog.AddWithContext(err, {"Service ID": sid, "Service Version": ver})
AddWithContext(log, e, sid, ver) ==
    Append(log, [err |-> e, context |-> TRUE, serviceID |-> sid, serviceVersion |-> ver])

\* ErrLog.Add(err)
Add(log, e) ==
    Append(log, [err |-> e, context |-> FALSE, serviceID |-> "", serviceVersion |-> 0])

\* Manifest.ServiceID(): the --service-id flag, else the manifest file's default.
ManifestServiceID(m) == IF m.Flag # "" THEN m.Flag ELSE m.File

Version(vs, n) ==
    [Number |-> n, Active |-> vs[n] = "active", Locked |-> vs[n] \in {"locked", "active"}]

----------------------------------------------------------------------------
\* cmd.ServiceDetails, from the specification's section 4.1

\* The Inputs paragraph gives the name flag precedence when it is set.
\* Step 1, service ID: the name flag, when set, is resolved by a name lookup
\* through the API client; else the explicit ID flag, else the manifest
\* default; ErrNoServiceID when none is available.
SDServiceID ==
    /\ pc = "ServiceDetails"
    /\ IF opts.ServiceNameFlag.WasSet
       THEN \E ok \in BOOLEAN :
              /\ calls' = Append(calls, Call("NameLookup", "", 0, ok))
              /\ IF ok
                 THEN /\ serviceID' = remote.idOfName
                      /\ pc' = "SDVersion"
                      /\ UNCHANGED sdErr
                 ELSE /\ sdErr' = APIError("NameLookup")
                      /\ pc' = "Returned"
                      /\ UNCHANGED serviceID
       ELSE /\ UNCHANGED calls
            /\ IF ManifestServiceID(opts.Manifest) # ""
               THEN /\ serviceID' = ManifestServiceID(opts.Manifest)
                    /\ pc' = "SDVersion"
                    /\ UNCHANGED sdErr
               ELSE /\ sdErr' = ErrNoServiceID
                    /\ pc' = "Returned"
                    /\ UNCHANGED serviceID
    /\ UNCHANGED <<cmd, flags, manifest, remote, opts, serviceVersion, currentVersion,
                   err, errLog, out>>

\* A resolver that queries the version list for every value of --version.
NeedsVersionList_Always(flag) == TRUE

\* Whether step 2 queries the service's version list: only for a symbolic selector.
NeedsVersionList(flag) == flag.kind \in {"latest", "active"}

\* The number a symbolic selector matches in the version list, 0 when none does.
MatchVersion(flag, vs) ==
    IF flag.kind = "latest"
    THEN Len(vs)
    ELSE IF \E i \in 1..Len(vs) : vs[i] = "active"
         THEN CHOOSE i \in 1..Len(vs) : vs[i] = "active"
         ELSE 0

\* Step 2, version: a literal integer is used as-is; a symbolic selector is
\* matched against the service's version list, queried from the API.
SDVersion ==
    /\ pc = "SDVersion"
    /\ IF NeedsVersionList(opts.ServiceVersionFlag)
       THEN \E ok \in BOOLEAN :
              /\ calls' = Append(calls, Call("ListVersions", serviceID, 0, ok))
              /\ IF ~ok
                 THEN /\ sdErr' = APIError("ListVersions")
                      /\ pc' = "Returned"
                      /\ UNCHANGED currentVersion
                 ELSE IF MatchVersion(opts.ServiceVersionFlag, remote.versions) = 0
                 THEN /\ sdErr' = ErrNoActiveVersion
                      /\ pc' = "Returned"
                      /\ UNCHANGED currentVersion
                 ELSE /\ currentVersion' = MatchVersion(opts.ServiceVersionFlag, remote.versions)
                      /\ pc' = "SDEditable"
                      /\ UNCHANGED sdErr
       ELSE /\ currentVersion' = opts.ServiceVersionFlag.n
            /\ pc' = "SDEditable"
            /\ UNCHANGED <<calls, sdErr>>
    /\ UNCHANGED <<cmd, flags, manifest, remote, opts, serviceID, serviceVersion,
                   err, errLog, out>>

\* Whether step 3 rejects or clones the version with this metadata.
NotEditable(v, allowActiveLocked) == (v.Active \/ v.Locked) /\ ~allowActiveLocked

\* Step 3, editability: with the version's metadata, a locked or active
\* version that is not allowed as-is is cloned when auto-clone was requested
\* and is an error otherwise.  Step 4 returns the service ID and the version.
SDEditable ==
    /\ pc = "SDEditable"
    /\ pc' = "Returned"
    /\ LET v == Version(remote.versions, currentVersion)
       IN IF NotEditable(v, opts.AllowActiveLocked)
          THEN IF opts.AutoCloneFlag.WasSet
               THEN \E ok \in BOOLEAN :
                      /\ calls' = Append(calls, Call("CloneVersion", serviceID, currentVersion, ok))
                      /\ IF ok
                         THEN /\ remote' = [remote EXCEPT !.versions = Append(@, "editable")]
                              /\ serviceVersion' = Version(remote'.versions, Len(remote'.versions))
                              /\ UNCHANGED sdErr
                         ELSE /\ sdErr' = APIError("CloneVersion")
                              /\ serviceVersion' = v
                              /\ UNCHANGED remote
               ELSE /\ sdErr' = ErrActiveLockedVersion
                    /\ serviceVersion' = v
                    /\ UNCHANGED <<calls, remote>>
          ELSE /\ serviceVersion' = v
               /\ UNCHANGED <<calls, remote, sdErr>>
    /\ UNCHANGED <<cmd, flags, manifest, opts, serviceID, currentVersion, err, errLog, out>>

----------------------------------------------------------------------------
\* The read-only commands

\* An Exec without the check of the flag combination.
InvalidVerboseJSONCombo_Omitted == FALSE

\* `c.Globals.Verbose() && c.json`
InvalidVerboseJSONCombo == flags.verbose /\ flags.json

\* The options the read-only commands resolve with.
ReadServiceDetailsOpts ==
    [AllowActiveLocked |-> TRUE,
     AutoCloneFlag |-> [WasSet |-> FALSE],
     ServiceNameFlag |-> flags.serviceName,
     ServiceVersionFlag |-> flags.serviceVersion,
     Manifest |-> manifest]

\* An Exec that goes on after a failed resolution.
ResolutionFailed_Ignored == FALSE

\* `if err != nil` after cmd.ServiceDetails
ResolutionFailed == sdErr # NoErr

\* An Exec that returns a failed resource call's error without logging it.
LogResourceError_Skipped(log, e) == log

\* The ErrLog after a failed resource call of a read-only command: ErrLog.Add(err).
LogResourceError(log, e) == Add(log, e)

\* Exec up to the call of cmd.ServiceDetails.
ReadExec ==
    /\ pc = "Exec"
    /\ cmd \in JSONCommands
    /\ IF InvalidVerboseJSONCombo
       THEN /\ err' = ErrInvalidVerboseJSONCombo
            /\ pc' = "done"
            /\ UNCHANGED opts
       ELSE /\ opts' = ReadServiceDetailsOpts
            /\ pc' = "ServiceDetails"
            /\ UNCHANGED err
    /\ UNCHANGED <<cmd, flags, manifest, remote, serviceID, serviceVersion, currentVersion,
                   sdErr, calls, errLog, out>>

\* What a list command writes for a successful response.
ListOutput == IF ~flags.verbose THEN (IF flags.json THEN "json" ELSE "table") ELSE "verbose"

\* What the describe command writes for a successful response.
DescribeOutput == IF flags.json THEN "json" ELSE (IF ~flags.verbose THEN "text" ELSE "verbose")

\* Exec of a read-only command from the return of cmd.ServiceDetails on.
\* (json.Marshal of the response cannot fail for these response types, so
\* its error return is not a behaviour.)
ReadAfterServiceDetails(output) ==
    /\ pc = "Returned"
    /\ pc' = "done"
    /\ IF ResolutionFailed
       THEN /\ errLog' = AddWithContext(errLog, sdErr, serviceID, serviceVersion.Number)
            /\ err' = sdErr
            /\ UNCHANGED <<calls, out>>
       ELSE \E ok \in BOOLEAN :
              /\ calls' = Append(calls, Call(ResourceMethod(cmd), serviceID, serviceVersion.Number, ok))
              /\ IF ok
                 THEN /\ out' = Append(out, output)
                      /\ UNCHANGED <<err, errLog>>
                 ELSE /\ errLog' = LogResourceError(errLog, APIError(ResourceMethod(cmd)))
                      /\ err' = APIError(ResourceMethod(cmd))
                      /\ UNCHANGED out
    /\ UNCHANGED <<cmd, flags, manifest, remote, opts, serviceID, serviceVersion,
                   currentVersion, sdErr>>

\* ListCommand.Exec (Datadog, Loggly, Splunk)
ListExec == cmd \in ListCommands /\ ReadAfterServiceDetails(ListOutput)

\* DescribeCommand.Exec (FTP)
DescribeExec == cmd \in DescribeCommands /\ ReadAfterServiceDetails(DescribeOutput)

----------------------------------------------------------------------------
\* The snippet update command

\* Options that accept an active or locked version as-is, as the read-only
\* commands' do.
UpdateServiceDetailsOpts_AllowsLocked ==
    [AllowActiveLocked |-> TRUE,
     AutoCloneFlag |-> flags.autoClone,
     ServiceNameFlag |-> flags.serviceName,
     ServiceVersionFlag |-> flags.serviceVersion,
     Manifest |-> manifest]

\* Options that leave ServiceNameFlag at its zero value.
UpdateServiceDetailsOpts_NoServiceName ==
    [AllowActiveLocked |-> FALSE,
     AutoCloneFlag |-> flags.autoClone,
     ServiceNameFlag |-> [WasSet |-> FALSE, Value |-> ""],
     ServiceVersionFlag |-> flags.serviceVersion,
     Manifest |-> manifest]

\* The options UpdateCommand.Exec resolves with: AllowActiveLocked is left at
\* its zero value, and the --autoclone flag is passed on.
UpdateServiceDetailsOpts ==
    [AllowActiveLocked |-> FALSE,
     AutoCloneFlag |-> flags.autoClone,
     ServiceNameFlag |-> flags.serviceName,
     ServiceVersionFlag |-> flags.serviceVersion,
     Manifest |-> manifest]

\* Exec up to the call of cmd.ServiceDetails.
UpdateExec ==
    /\ pc = "Exec"
    /\ cmd \in UpdateCommands
    /\ opts' = UpdateServiceDetailsOpts
    /\ pc' = "ServiceDetails"
    /\ UNCHANGED <<cmd, flags, manifest, remote, serviceID, serviceVersion, currentVersion,
                   sdErr, err, calls, errLog, out>>

\* A branch on the value given to --dynamic instead of on its presence.
IsDynamic_ByValue == flags.dynamic.Value

\* `if c.dynamic.WasSet`
IsDynamic == flags.dynamic.WasSet

\* A constructDynamicInput that checks --snippet-id before --new-name.
constructDynamicInput_SwappedChecks(sid, ver) ==
    IF flags.snippetID = ""
    THEN [err |-> ErrMustProvideSnippetID, input |-> Call("UpdateDynamicSnippet", "", 0, TRUE)]
    ELSE IF flags.newName.WasSet
    THEN [err |-> ErrNewNameNotSupported, input |-> Call("UpdateDynamicSnippet", "", 0, TRUE)]
    ELSE [err |-> NoErr, input |-> Call("UpdateDynamicSnippet", sid, 0, TRUE)]

\* constructDynamicInput: the UpdateDynamicSnippetInput (it carries no service
\* version) or an error.
constructDynamicInput(sid, ver) ==
    IF flags.newName.WasSet
    THEN [err |-> ErrNewNameNotSupported, input |-> Call("UpdateDynamicSnippet", "", 0, TRUE)]
    ELSE IF flags.snippetID = ""
    THEN [err |-> ErrMustProvideSnippetID, input |-> Call("UpdateDynamicSnippet", "", 0, TRUE)]
    ELSE [err |-> NoErr, input |-> Call("UpdateDynamicSnippet", sid, 0, TRUE)]

\* A constructInput without the check of --snippet-id.
constructInput_NoSnippetIDCheck(sid, ver) ==
    IF flags.name = ""
    THEN [err |-> ErrMustProvideName, input |-> Call("UpdateSnippet", "", 0, TRUE)]
    ELSE [err |-> NoErr, input |-> Call("UpdateSnippet", sid, ver, TRUE)]

\* A constructInput that sends the version selected by --version instead of
\* the version cmd.ServiceDetails returned.
constructInput_SelectedVersion(sid, ver) ==
    IF flags.snippetID # ""
    THEN [err |-> ErrSnippetIDNotSupported, input |-> Call("UpdateSnippet", "", 0, TRUE)]
    ELSE IF flags.name = ""
    THEN [err |-> ErrMustProvideName, input |-> Call("UpdateSnippet", "", 0, TRUE)]
    ELSE [err |-> NoErr, input |-> Call("UpdateSnippet", sid, currentVersion, TRUE)]

\* constructInput: the UpdateSnippetInput or an error.
constructInput(sid, ver) ==
    IF flags.snippetID # ""
    THEN [err |-> ErrSnippetIDNotSupported, input |-> Call("UpdateSnippet", "", 0, TRUE)]
    ELSE IF flags.name = ""
    THEN [err |-> ErrMustProvideName, input |-> Call("UpdateSnippet", "", 0, TRUE)]
    ELSE [err |-> NoErr, input |-> Call("UpdateSnippet", sid, ver, TRUE)]

\* The ErrLog after an error of the snippet update command.
LogUpdateError(log, e, sid, ver) == AddWithContext(log, e, sid, ver)

\* UpdateCommand.Exec from the return of cmd.ServiceDetails on.
UpdateAfterServiceDetails ==
    /\ pc = "Returned"
    /\ cmd \in UpdateCommands
    /\ pc' = "done"
    /\ IF ResolutionFailed
       THEN /\ errLog' = LogUpdateError(errLog, sdErr, serviceID, serviceVersion.Number)
            /\ err' = sdErr
            /\ UNCHANGED <<calls, out>>
       ELSE LET r == IF IsDynamic
                     THEN constructDynamicInput(serviceID, serviceVersion.Number)
                     ELSE constructInput(serviceID, serviceVersion.Number)
            IN IF r.err # NoErr
               THEN /\ errLog' = LogUpdateError(errLog, r.err, serviceID, serviceVersion.Number)
                    /\ err' = r.err
                    /\ UNCHANGED <<calls, out>>
               ELSE \E ok \in BOOLEAN :
                      /\ calls' = Append(calls, [r.input EXCEPT !.ok = ok])
                      /\ IF ok
                         THEN /\ out' = Append(out, "success")
                              /\ UNCHANGED <<err, errLog>>
                         ELSE /\ errLog' = LogUpdateError(errLog, APIError(r.input.method),
                                                          serviceID, serviceVersion.Number)
                              /\ err' = APIError(r.input.method)
                              /\ UNCHANGED out
    /\ UNCHANGED <<cmd, flags, manifest, remote, opts, serviceID, serviceVersion,
                   currentVersion, sdErr>>

----------------------------------------------------------------------------
\* Specification

Next ==
    \/ ReadExec
    \/ UpdateExec
    \/ SDServiceID
    \/ SDVersion
    \/ SDEditable
    \/ ListExec
    \/ DescribeExec
    \/ UpdateAfterServiceDetails

Spec == Init /\ [][Next]_vars

----------------------------------------------------------------------------
\* Properties

\* Positions of the calls of the given methods in `calls`.
CallsOf(methods) == {i \in 1..Len(calls) : calls[i].method \in methods}

\* cmd.ServiceDetails was called and has returned.
ServiceDetailsReturned == pc = "Returned" \/ (pc = "done" /\ opts # NoOpts)

\* The version selected by --version is locked or active.
SelectedNotEditable ==
    /\ currentVersion # 0
    /\ remote.versions[currentVersion] \in {"locked", "active"}

\* C1: in every command with a --json flag, an invocation with --verbose and
\* --json ends with the invalid verbose/JSON combination error, and at no
\* point of it has an outbound call been made or anything been written.
C1_VerboseJSONFailsBeforeAnyCall ==
    (cmd \in JSONCommands /\ flags.verbose /\ flags.json) =>
        /\ calls = <<>>
        /\ out = <<>>
        /\ pc \in {"Exec", "done"}
        /\ pc = "done" => err = ErrInvalidVerboseJSONCombo

C1_Witness ==
    /\ cmd \in JSONCommands
    /\ flags.verbose /\ flags.json
    /\ pc = "done"
    /\ err = ErrInvalidVerboseJSONCombo

\* C2: when the selected version is locked or active, AllowActiveLocked is
\* false and --autoclone is not set, resolution fails with
\* ErrActiveLockedVersion; the snippet update command resolves with
\* AllowActiveLocked = false, and whenever it has issued UpdateSnippet or
\* UpdateDynamicSnippet the version it resolved is editable (and is the one an
\* UpdateSnippet request names).
C2_LockedVersionRejected ==
    /\ (/\ ServiceDetailsReturned
        /\ SelectedNotEditable
        /\ ~opts.AllowActiveLocked
        /\ ~opts.AutoCloneFlag.WasSet)
           => /\ sdErr = ErrActiveLockedVersion
              /\ pc = "done" => err = ErrActiveLockedVersion
    /\ (cmd \in UpdateCommands /\ ServiceDetailsReturned) => ~opts.AllowActiveLocked
    /\ \A i \in CallsOf(UpdateMethods) :
           /\ remote.versions[serviceVersion.Number] = "editable"
           /\ calls[i].method = "UpdateSnippet" => calls[i].serviceVersion = serviceVersion.Number

C2_Witness ==
    /\ cmd \in UpdateCommands
    /\ SelectedNotEditable
    /\ ~flags.autoClone.WasSet
    /\ pc = "done"
    /\ err = ErrActiveLockedVersion
    /\ CallsOf(UpdateMethods) = {}

C4_NoServiceID ==
    /\ (/\ ServiceDetailsReturned
        /\ ~flags.serviceName.WasSet
        /\ manifest.Flag = ""
        /\ manifest.File = "")
           => /\ sdErr = ErrNoServiceID
              /\ calls = <<>>
              /\ out = <<>>
              /\ pc = "done" => err = ErrNoServiceID
    /\ (ServiceDetailsReturned /\ sdErr = NoErr) => serviceID # ""

C4_Witness ==
    /\ ~flags.serviceName.WasSet
    /\ manifest.Flag = ""
    /\ manifest.File = ""
    /\ pc = "done"
    /\ err = ErrNoServiceID

\* C5 as stated: with a literal --version, the version number resolution
\* returns equals that integer, and no version-list call is made.
C5_LiteralVersionReturned ==
    (/\ ServiceDetailsReturned
     /\ sdErr = NoErr
     /\ flags.serviceVersion.kind = "literal")
        => /\ serviceVersion.Number = flags.serviceVersion.n
           /\ CallsOf({"ListVersions"}) = {}

\* C5, amended: with a literal --version no version-list call is made and the
\* version selected is that integer; the version number resolution returns
\* equals that integer unless auto-clone replaced the version, and is the
\* clone's number then.
C5_LiteralVersionSelected ==
    (flags.serviceVersion.kind = "literal") =>
        /\ CallsOf({"ListVersions"}) = {}
        /\ currentVersion \in {0, flags.serviceVersion.n}
        /\ (ServiceDetailsReturned /\ sdErr # ErrNoServiceID /\ sdErr # APIError("NameLookup"))
               => currentVersion = flags.serviceVersion.n
        /\ (ServiceDetailsReturned /\ sdErr = NoErr) =>
               IF CallsOf({"CloneVersion"}) = {}
               THEN serviceVersion.Number = flags.serviceVersion.n
               ELSE /\ serviceVersion.Number # flags.serviceVersion.n
                    /\ SelectedNotEditable
                    /\ opts.AutoCloneFlag.WasSet /\ ~opts.AllowActiveLocked

C5_Witness ==
    /\ flags.serviceVersion.kind = "literal"
    /\ pc = "done"
    /\ err = NoErr
    /\ serviceVersion.Number = flags.serviceVersion.n
    /\ Len(calls) = 1
    /\ CallsOf(ResourceMethods) = {1}

\* C6: an invocation that ends with a usage error has made no outbound API
\* call.
C6_UsageErrorBeforeAnyCall ==
    (pc = "done" /\ err.kind = "usage") => calls = <<>>

\* The four validation errors of the snippet update command.
UpdateValidationErrors ==
    {ErrNewNameNotSupported, ErrMustProvideSnippetID, ErrSnippetIDNotSupported,
     ErrMustProvideName}

\* C7: after a successful resolution, a dynamic update fails with the
\* --new-name error if --new-name was set, else with the must-provide
\* --snippet-id error if --snippet-id is empty; a versioned update fails with
\* the --snippet-id error if --snippet-id is not empty, else with the
\* must-provide --name error if --name is empty; each of these errors is
\* logged and returned with no update call made; in every other case the
\* update call of the path taken is made.
C7_UpdateValidation ==
    (cmd \in UpdateCommands /\ pc = "done" /\ sdErr = NoErr) =>
        LET dyn == flags.dynamic.WasSet
            invalid ==
                \/ dyn /\ (flags.newName.WasSet \/ flags.snippetID = "")
                \/ ~dyn /\ (flags.snippetID # "" \/ flags.name = "")
        IN /\ (dyn /\ flags.newName.WasSet) => err = ErrNewNameNotSupported
           /\ (dyn /\ ~flags.newName.WasSet /\ flags.snippetID = "")
                  => err = ErrMustProvideSnippetID
           /\ (~dyn /\ flags.snippetID # "") => err = ErrSnippetIDNotSupported
           /\ (~dyn /\ flags.snippetID = "" /\ flags.name = "") => err = ErrMustProvideName
           /\ invalid =>
                  /\ err \in UpdateValidationErrors
                  /\ Len(errLog) = 1
                  /\ errLog[1].err = err
                  /\ CallsOf(UpdateMethods) = {}
                  /\ out = <<>>
           /\ ~invalid =>
                  /\ err \notin UpdateValidationErrors
                  /\ Cardinality(CallsOf(UpdateMethods)) = 1
                  /\ CallsOf(UpdateMethods) = {Len(calls)}
                  /\ calls[Len(calls)].method =
                         (IF dyn THEN "UpdateDynamicSnippet" ELSE "UpdateSnippet")

C7_Witness ==
    /\ cmd \in UpdateCommands
    /\ pc = "done"
    /\ sdErr = NoErr
    /\ flags.dynamic.WasSet
    /\ flags.newName.WasSet
    /\ flags.snippetID = ""
    /\ err = ErrNewNameNotSupported
    /\ Len(errLog) = 1

\* C8 as stated: no invocation with both a non-empty --snippet-id and a
\* non-empty --name reaches an update call, with or without --dynamic.
C8_SnippetIDAndNameExclusive ==
    (flags.snippetID # "" /\ flags.name # "") => CallsOf(UpdateMethods) = {}

\* C8, amended: an invocation with both a non-empty --snippet-id and a
\* non-empty --name never reaches UpdateSnippet: without --dynamic it fails
\* with the --snippet-id error; with --dynamic the name is ignored, and
\* UpdateDynamicSnippet is called unless --new-name was set.
C8_SnippetIDExcludesVersionedUpdate ==
    (flags.snippetID # "" /\ flags.name # "") =>
        /\ CallsOf({"UpdateSnippet"}) = {}
        /\ CallsOf({"UpdateDynamicSnippet"}) # {} => flags.dynamic.WasSet
        /\ (pc = "done" /\ sdErr = NoErr) =>
               IF flags.dynamic.WasSet
               THEN CallsOf({"UpdateDynamicSnippet"}) # {} <=> ~flags.newName.WasSet
               ELSE err = ErrSnippetIDNotSupported

C8_Witness ==
    /\ flags.snippetID # ""
    /\ flags.name # ""
    /\ flags.dynamic.WasSet
    /\ pc = "done"
    /\ err = NoErr
    /\ CallsOf({"UpdateDynamicSnippet"}) # {}

\* Each API method is called at most once, and a failed call is the last call
\* of the invocation, whose error Exec returns.
NoRetryAndFailureIsTerminal ==
    /\ \A i, j \in 1..Len(calls) : calls[i].method = calls[j].method => i = j
    /\ \A i \in 1..Len(calls) :
           ~calls[i].ok =>
               /\ i = Len(calls)
               /\ pc \in {"Returned", "done"}
               /\ calls[i].method \in ResolutionMethods => sdErr = APIError(calls[i].method)
               /\ pc = "done" => err = APIError(calls[i].method)
    /\ pc = "done" => (err = NoErr <=> (\A i \in 1..Len(calls) : calls[i].ok) /\ out # <<>>)

\* C9 as stated: resolution makes at most two outbound calls, no method is
\* called twice and the first failing call ends the invocation.
C9_AtMostTwoResolutionCalls ==
    /\ Cardinality(CallsOf(ResolutionMethods)) <= 2
    /\ NoRetryAndFailureIsTerminal

\* C9, amended: resolution makes at most three outbound calls (name lookup,
\* version list, clone, in that order and each at most once), followed by at
\* most one resource call; no method is called twice and the first failing
\* call ends the invocation.
C9_AtMostThreeResolutionCalls ==
    /\ Cardinality(CallsOf(ResolutionMethods)) <= 3
    /\ Cardinality(CallsOf(ResourceMethods)) <= 1
    /\ \A i \in CallsOf(ResolutionMethods), j \in CallsOf(ResourceMethods) : i < j
    /\ \A i \in CallsOf({"NameLookup"}) : i = 1
    /\ \A i \in CallsOf({"ListVersions"}), j \in CallsOf({"CloneVersion"}) : i < j
    /\ NoRetryAndFailureIsTerminal

C9_Witness ==
    /\ pc = "done"
    /\ Cardinality(CallsOf(ResolutionMethods)) = 3
    /\ Len(calls) = 4
    /\ ~calls[4].ok
    /\ err = APIError(calls[4].method)

\* The error Exec returned came from resolution or from an API call.
ReturnedRemoteError == pc = "done" /\ err.kind \in {"resolution", "api"}

\* C10 as stated: a returned resolution or API error has exactly one ErrLog
\* entry, which carries the context fields.
C10_LoggedOnceWithContext ==
    ReturnedRemoteError =>
        /\ Len(errLog) = 1
        /\ errLog[1].err = err
        /\ errLog[1].context

\* C10, amended: a returned resolution or API error has exactly one ErrLog
\* entry; it carries the context fields (service ID and service version, as
\* cmd.ServiceDetails returned them) unless it is the error of a list or
\* describe command's resource call, which is logged without context.
C10_LoggedOnce ==
    ReturnedRemoteError =>
        /\ Len(errLog) = 1
        /\ errLog[1].err = err
        /\ errLog[1].context <=>
               ~(cmd \in JSONCommands /\ err = APIError(ResourceMethod(cmd)))
        /\ errLog[1].context =>
               /\ errLog[1].serviceID = serviceID
               /\ errLog[1].serviceVersion = serviceVersion.Number

C10_Witness ==
    /\ cmd \in JSONCommands
    /\ pc = "done"
    /\ err = APIError(ResourceMethod(cmd))
    /\ Len(errLog) = 1
    /\ ~errLog[1].context

C12_OneUpdateCall ==
    (cmd \in UpdateCommands /\ pc = "done") =>
        /\ Cardinality(CallsOf(UpdateMethods)) <= 1
        /\ err = NoErr =>
               /\ Cardinality(CallsOf(UpdateMethods)) = 1
               /\ flags.dynamic.WasSet =>
                      /\ CallsOf({"UpdateDynamicSnippet"}) # {}
                      /\ CallsOf({"UpdateSnippet"}) = {}
               /\ ~flags.dynamic.WasSet =>
                      /\ CallsOf({"UpdateSnippet"}) # {}
                      /\ CallsOf({"UpdateDynamicSnippet"}) = {}

C12_Witness ==
    /\ cmd \in UpdateCommands
    /\ pc = "done"
    /\ err = NoErr
    /\ flags.dynamic.WasSet
    /\ ~flags.dynamic.Value
    /\ CallsOf({"UpdateDynamicSnippet"}) # {}

====
